---- MODULE Spec2Model ----
(***************************************************************************)
(* A model of the word-guessing game umpire (wordle/game.py), the          *)
(* candidate filter (wordle/agent/base.py), the value store                *)
(* (wordle/shared/rl_utils.py) and the two learning agents                 *)
(* (wordle/agent/rl_base.py, qlearning.py, sarsa.py).                      *)
(*                                                                         *)
(* Conventions                                                             *)
(*   - a word is a sequence of one-letter strings; Python position i is    *)
(*     position i+1 here;                                                  *)
(*   - the code's letter scores are the floats -1.0, -0.5 and 0.0; they    *)
(*     are kept here in halves, as the integers -2, -1 and 0, so that a    *)
(*     sum of scores is an integer (sum == 0.0 stays sum = 0);             *)
(*   - Python's None for the active word is the empty sequence NoWord and  *)
(*     an active word w is the one-element sequence <<w>>.                 *)
(***************************************************************************)
EXTENDS Integers, Sequences, FiniteSets, TLC

(***************************************************************************)
(* Bounds of the model and constants of the program.                       *)
(***************************************************************************)
MaxAnswers == 2
MaxCands == 3
MaxActions == 2
\* visits counted per state, and calls made on a store in one run
MaxVisits == 1
MaxCalls == 4
\* epsilon is a number of EpsDen-ths: 0, 1/EpsDen, ..., 1
EpsDen == 2
\* public calls (play, train, reset, training_mode) made on an agent in one run
MaxAgentCalls == 3
\* start() may be called a few times after the answers are exhausted.
MaxIndex == MaxAnswers + 2

WordLen == 5
ABSENT == -2
PRESENT == -1
CORRECT == 0

(***************************************************************************)
(* The words the model plays with.                                         *)
(***************************************************************************)
crane == <<"c", "r", "a", "n", "e">>
slate == <<"s", "l", "a", "t", "e">>
trace == <<"t", "r", "a", "c", "e">>
algae == <<"a", "l", "g", "a", "e">>
abase == <<"a", "b", "a", "s", "e">>
eagle == <<"e", "a", "g", "l", "e">>
abuse == <<"a", "b", "u", "s", "e">>
cran == <<"c", "r", "a", "n">>
cranes == <<"c", "r", "a", "n", "e", "s">>
\* The words the agents play with: they differ in their first letter only,
\* so a wrong guess rules out nothing but itself.
fight == <<"f", "i", "g", "h", "t">>
light == <<"l", "i", "g", "h", "t">>
might == <<"m", "i", "g", "h", "t">>
night == <<"n", "i", "g", "h", "t">>
right == <<"r", "i", "g", "h", "t">>
sight == <<"s", "i", "g", "h", "t">>
tight == <<"t", "i", "g", "h", "t">>
\* The word lists agents are constructed with; the constructor copies and
\* shuffles its list (base.py line 41).
AgentLarge == <<fight, light, might, night, right, sight, tight>>
AgentSmall == <<fight, light, might>>

\* The allowed guesses; every answer is one of them.
Corpus == {crane, slate, trace, algae, abase}
\* What a caller may hand to guess(): allowed words, a word that is not
\* allowed, a word that is too short and one that is too long.
GuessInputs == Corpus \cup {eagle, cran, cranes}

Range(s) == {s[i] : i \in DOMAIN s}
Letters == UNION {Range(w) : w \in GuessInputs \cup Range(AgentLarge) \cup {abuse}}

\* The sum of s[1..n], and sum(s).
RECURSIVE SumTo(_, _)
SumTo(s, n) == IF n = 0 THEN 0 ELSE SumTo(s, n - 1) + s[n]
SumSeq(s) == SumTo(s, Len(s))

\* The sequences over S of length lo..hi.
SeqsOf(S, lo, hi) == UNION {[1..n -> S] : n \in lo..hi}
IsInjective(s) == \A i, j \in DOMAIN s : s[i] = s[j] => i = j
\* All orderings of the elements of sequence s (random.shuffle's outcomes).
RECURSIVE Orders(_)
Orders(S) ==
    IF S = {} THEN {<<>>}
    ELSE UNION {{<<x>> \o t : t \in Orders(S \ {x})} : x \in S}
Shuffles(s) == {[i \in DOMAIN s |-> s[t[i]]] : t \in Orders(DOMAIN s)}

NoWord == <<>>
\* Python truthiness of self.word: None and the empty string are false.
IsActive(w) == w # NoWord /\ w[1] # <<>>

VARIABLES
    \* Game (wordle/game.py)
    randomize, words, answers, index, word,
    \* the last Game call: its name, argument, results, and the state before it
    op, arg, sret, gret, err, pword,
    \* history of the session: calls of start() since construction or the last
    \* reset(), the answers as constructed, and the index the last reset()
    \* rewound from (-1 before any reset)
    starts, answers0, resetFrom,
    \* Candidate filter (wordle/agent/base.py): the caller's variable `words`,
    \* the guess and the score it filters by, the list object handed to the
    \* last call as it is after the call and as it was before it, and the
    \* number of calls made; cands0 is the list the first call was given
    cands, fguess, fscore, held, pin, napplied, cands0,
    \* Value store (wordle/shared/rl_utils.py): the number of actions, the
    \* entries of the dict in insertion order, and the file of save()/load()
    qlen, Q, file,
    \* the vector object the last lookup returned, the last Qsa call (name,
    \* key, vector returned, error, whether the key was missing), and for
    \* every state the vector its last in-place update left (<<>> if none)
    ref, qop, qkey, qret, qerr, qnew, expect,
    \* the visit counts (self.counts: its entries in insertion order), the
    \* last snapshot() taken, the store's entries as they were when it last
    \* wrote the file, the last policy call, and the number of calls made
    counts, snap, saved, pol, nops,
    \* The learning agent (rl_base.py, qlearning.py, sarsa.py): the agent
    \* object, the call of play() or train() under way, the locals of the
    \* episode under way, where the call stands, the error it raised, and
    \* the last step of an episode
    ag, run, ep, pc, aerr, last

gameVars == <<randomize, words, answers, index, word>>
callVars == <<op, arg, sret, gret, err, pword>>
histVars == <<starts, answers0, resetFrom>>
filterVars == <<cands, fguess, fscore, held, pin, napplied, cands0>>
storeVars == <<qlen, Q, file>>
qcallVars == <<ref, qop, qkey, qret, qerr, qnew, expect>>
qmoreVars == <<counts, snap, saved, pol, nops>>
agentVars == <<ag, run, ep, pc, aerr, last>>
vars == <<gameVars, callVars, histVars, filterVars, storeVars, qcallVars,
          qmoreVars, agentVars>>

(***************************************************************************)
(* Game.guess: the scoring of a guess (game.py lines 91-106).              *)
(***************************************************************************)
\* Counter(self.word): every letter's number of occurrences (0 if absent).
Counter(w) == [c \in Letters |-> Cardinality({i \in DOMAIN w : w[i] = c})]

\* The first loop: an exact match scores 0.0 and uses up one of the letter.
RECURSIVE ExactPass(_, _, _, _)
ExactPass(w, guess, i, st) ==
    IF i > Len(w) THEN st
    ELSE IF w[i] = guess[i]
         THEN ExactPass(w, guess, i + 1,
                  [rtn |-> [st.rtn EXCEPT ![i] = CORRECT],
                   counts |-> [st.counts EXCEPT ![w[i]] = @ - 1]])
         ELSE ExactPass(w, guess, i + 1, st)

\* The second loop: a letter that is not an exact match scores -0.5 when its
\* count is still positive. The count is left as it is.
RECURSIVE PresentPass(_, _, _, _)
PresentPass(w, guess, i, st) ==
    IF i > Len(w) THEN st
    ELSE IF guess[i] = w[i]
         THEN PresentPass(w, guess, i + 1, st)
         ELSE IF st.counts[guess[i]] > 0
              THEN PresentPass(w, guess, i + 1,
                       [st EXCEPT !.rtn[i] = PRESENT])
              ELSE PresentPass(w, guess, i + 1, st)

score_guess(w, guess) ==
    LET st0 == [rtn |-> [i \in 1..WordLen |-> ABSENT], counts |-> Counter(w)]
        st1 == ExactPass(w, guess, 1, st0)
        st2 == PresentPass(w, guess, 1, st1)
    IN  [i \in 1..WordLen |-> st2.rtn[i]]

\* Variant of Solved: the 0/1/2 convention's test, sum == 10, on these scores.
SolvedTen(rtn) == SumSeq(rtn) = 10
\* "If this guess is correct": the scores sum to 0.0 (game.py line 109).
Solved(rtn) == SumSeq(rtn) = 0

\* Variant of GuessError: the length is checked before the active word.
GuessErrorLengthFirst(w, guess) ==
    IF Len(guess) # WordLen THEN "length"
    ELSE IF ~IsActive(w) THEN "inactive"
    ELSE IF guess \notin words THEN "notallowed"
    ELSE "none"
\* The three checks at the head of guess(), in the code's order; "none" when
\* the guess is scored.
GuessError(w, guess) ==
    IF ~IsActive(w) THEN "inactive"
    ELSE IF Len(guess) # WordLen THEN "length"
    ELSE IF guess \notin words THEN "notallowed"
    ELSE "none"

(***************************************************************************)
(* The operations of Game.                                                 *)
(***************************************************************************)
GameInit ==
    /\ randomize \in BOOLEAN
    /\ words = Corpus
    /\ answers \in SeqsOf(Corpus, 0, MaxAnswers)
    /\ index = 0
    /\ word = NoWord
    /\ op = "init" /\ arg = <<>> /\ sret = "none" /\ gret = <<>>
    /\ err = "none" /\ pword = NoWord
    /\ starts = 0 /\ answers0 = answers /\ resetFrom = -1

\* The candidate filter at rest, for the specifications that do not use it.
FilterIdle ==
    /\ cands = <<>> /\ fguess = crane /\ fscore = <<>>
    /\ held = <<>> /\ pin = <<>> /\ napplied = 0 /\ cands0 = <<>>

\* No agent, for the specifications that have none.
AgentIdle ==
    /\ ag = <<>> /\ run = <<>> /\ ep = <<>> /\ pc = "none"
    /\ aerr = "none" /\ last = <<>>

\* The record of a call: its name, its argument and the state it found.
Called(name, a) ==
    /\ op' = name
    /\ arg' = a
    /\ pword' = word

\* Variant of Start: the exhaustion test is >= instead of >.
StartOffByOne ==
    /\ index < MaxIndex
    /\ index' = index + 1
    /\ IF index + 1 >= Len(answers)
       THEN word' = word /\ sret' = "false"
       ELSE word' = <<answers[index + 1]>> /\ sret' = "true"
    /\ Called("start", <<>>)
    /\ gret' = <<>> /\ err' = "none"
    /\ starts' = starts + 1
    /\ UNCHANGED <<randomize, words, answers, answers0, resetFrom>>
\* Game.start: the index always advances; the word changes only while there
\* are answers left.
Start ==
    /\ index' = index + 1
    /\ IF index + 1 > Len(answers)
       THEN word' = word /\ sret' = "false"
       ELSE word' = <<answers[index + 1]>> /\ sret' = "true"
    /\ Called("start", <<>>)
    /\ gret' = <<>> /\ err' = "none"
    /\ starts' = starts + 1
    /\ UNCHANGED <<randomize, words, answers, answers0, resetFrom>>

\* Variant of Guess: a solved guess leaves the answer active.
GuessStaysActive(guess) ==
    LET e == GuessError(word, guess)
        rtn == score_guess(word[1], guess)
    IN  /\ err' = e
        /\ gret' = IF e # "none" THEN <<>> ELSE rtn
        /\ word' = word
        /\ Called("guess", guess)
        /\ sret' = "none"
        /\ UNCHANGED <<randomize, words, answers, index, histVars>>
\* Game.guess: an error leaves the session as it is; a score that sums to 0
\* ends it.
Guess(guess) ==
    LET e == GuessError(word, guess)
        rtn == score_guess(word[1], guess)
    IN  /\ err' = e
        /\ IF e # "none"
           THEN gret' = <<>> /\ word' = word
           ELSE /\ gret' = rtn
                /\ word' = IF Solved(rtn) THEN NoWord ELSE word
        /\ Called("guess", guess)
        /\ sret' = "none"
        /\ UNCHANGED <<randomize, words, answers, index, histVars>>

\* Variant of Reset: the index is not rewound.
ResetKeepsIndex ==
    /\ index' = index
    /\ word' = NoWord
    /\ answers' \in (IF randomize THEN Shuffles(answers) ELSE {answers})
    /\ Called("reset", <<>>)
    /\ sret' = "none" /\ gret' = <<>> /\ err' = "none"
    /\ starts' = 0 /\ resetFrom' = index
    /\ UNCHANGED <<randomize, words, answers0>>
\* Game.reset: index 0, no word, and a reshuffle when randomize is set.
Reset ==
    /\ index' = 0
    /\ word' = NoWord
    /\ answers' \in (IF randomize THEN Shuffles(answers) ELSE {answers})
    /\ Called("reset", <<>>)
    /\ sret' = "none" /\ gret' = <<>> /\ err' = "none"
    /\ starts' = 0 /\ resetFrom' = index
    /\ UNCHANGED <<randomize, words, answers0>>

GuessAny == \E guess \in GuessInputs : Guess(guess)


(***************************************************************************)
(* BaseAgent.apply_guess: the candidate filter (base.py lines 59-103).     *)
(***************************************************************************)
\* [(guess[i], i) for i in range(5) if score[i] == v]
PairsScored(guess, score, v) ==
    SelectSeq([i \in 1..WordLen |-> <<guess[i], i>>],
              LAMBDA p : score[p[2]] = v)

\* for ch, i in include: keep the words with ch at position i
RECURSIVE FilterInclude(_, _)
FilterInclude(ws, include) ==
    IF include = <<>> THEN ws
    ELSE FilterInclude(
             SelectSeq(ws, LAMBDA w : w[Head(include)[2]] = Head(include)[1]),
             Tail(include))

\* Variant of FilterPresent: the words with ch at position i are kept.
RECURSIVE FilterPresentAt(_, _)
FilterPresentAt(ws, present) ==
    IF present = <<>> THEN ws
    ELSE FilterPresentAt(
             SelectSeq(ws, LAMBDA w : w[Head(present)[2]] = Head(present)[1]),
             Tail(present))
\* for ch, i in present: keep the words with ch somewhere but not at i
RECURSIVE FilterPresent(_, _)
FilterPresent(ws, present) ==
    IF present = <<>> THEN ws
    ELSE FilterPresent(
             SelectSeq(ws, LAMBDA w : /\ Head(present)[1] \in Range(w)
                                      /\ w[Head(present)[2]] # Head(present)[1]),
             Tail(present))

\* Variant of FilterExclude: keep is ignored, every ABSENT letter is excluded.
RECURSIVE FilterExcludeAll(_, _, _)
FilterExcludeAll(ws, exclude, keep) ==
    IF exclude = <<>> THEN ws
    ELSE FilterExcludeAll(
             SelectSeq(ws, LAMBDA w : Head(exclude) \notin Range(w)),
             Tail(exclude), keep)
\* for ch in exclude: unless ch is in keep, drop the words that contain ch
RECURSIVE FilterExclude(_, _, _)
FilterExclude(ws, exclude, keep) ==
    IF exclude = <<>> THEN ws
    ELSE IF Head(exclude) \notin keep
         THEN FilterExclude(
                  SelectSeq(ws, LAMBDA w : Head(exclude) \notin Range(w)),
                  Tail(exclude), keep)
         ELSE FilterExclude(ws, Tail(exclude), keep)

\* list.remove(x): the list without its first x.
RECURSIVE RemoveFirst(_, _)
RemoveFirst(ws, x) ==
    IF ws = <<>> THEN <<>>
    ELSE IF Head(ws) = x THEN Tail(ws)
    ELSE <<Head(ws)>> \o RemoveFirst(Tail(ws), x)

\* The list after the three filters (base.py lines 72-95); it is a new list,
\* made from a copy of words_in.
Filtered(words_in, guess, score) ==
    LET include == PairsScored(guess, score, CORRECT)
        present == PairsScored(guess, score, PRESENT)
        keep == {p[1] : p \in Range(include)} \cup {p[1] : p \in Range(present)}
        exclude == [k \in DOMAIN PairsScored(guess, score, ABSENT) |->
                        PairsScored(guess, score, ABSENT)[k][1]]
    IN  FilterExclude(FilterPresent(FilterInclude(words_in, include), present),
                      exclude, keep)

\* Variant of apply_guess: the first word is dropped in place of the guess.
apply_guess_drop_head(words_in, guess, score) ==
    LET ws == Filtered(words_in, guess, score)
    IN  [ret |-> IF guess \in Range(ws) THEN Tail(ws) ELSE ws,
         words_in |-> words_in]
\* Variant of apply_guess: the guess is removed from words_in, not from the
\* filtered list.
apply_guess_remove_from_input(words_in, guess, score) ==
    LET ws == Filtered(words_in, guess, score)
    IN  [ret |-> ws,
         words_in |-> IF guess \in Range(ws) THEN RemoveFirst(words_in, guess)
                      ELSE words_in]
\* The whole call: `ret` is the list returned and `words_in` the caller's
\* list after the call. The guess is removed from the filtered copy.
apply_guess(words_in, guess, score) ==
    LET ws == Filtered(words_in, guess, score)
    IN  [ret |-> IF guess \in Range(ws) THEN RemoveFirst(ws, guess) ELSE ws,
         words_in |-> words_in]

\* The guesses and scores the filter is tried on: every word of 5 letters of
\* the model and every score; the candidate lists hold no word twice.
\* "abuse" passes the filters together with the guess "abase" when the middle
\* "a" of the guess is scored ABSENT and its other letters CORRECT.
FilterGuesses == Corpus \cup {abuse}
Scores == [1..WordLen -> {ABSENT, PRESENT, CORRECT}]
CandLists == {ws \in SeqsOf(FilterGuesses, 0, MaxCands) : IsInjective(ws)}

FilterInit ==
    /\ cands \in CandLists
    /\ fguess \in FilterGuesses
    /\ fscore \in Scores
    /\ held = cands /\ pin = cands /\ napplied = 0 /\ cands0 = cands

\* words = self.apply_guess(words, guess, score), at most twice.
ApplyGuess ==
    /\ napplied < 2
    /\ LET r == apply_guess(cands, fguess, fscore)
       IN  /\ cands' = r.ret
           /\ held' = r.words_in
    /\ pin' = cands
    /\ napplied' = napplied + 1
    /\ UNCHANGED <<fguess, fscore, cands0>>

\* The Game at rest, for the specifications that do not use it.
GameIdle ==
    /\ randomize = FALSE /\ words = Corpus /\ answers = <<>>
    /\ index = 0 /\ word = NoWord
    /\ op = "init" /\ arg = <<>> /\ sret = "none" /\ gret = <<>>
    /\ err = "none" /\ pword = NoWord
    /\ starts = 0 /\ answers0 = <<>> /\ resetFrom = -1



(***************************************************************************)
(* Qsa: the value store (rl_utils.py).                                     *)
(*                                                                         *)
(* A number is [v, f]: its value in halves and whether it is a float. A    *)
(* state (a dict key) is a tuple of numbers; Python compares and hashes    *)
(* keys by value, so (0,) and (0.0,) are one key. The dict is the sequence *)
(* of its entries [key, vec] in insertion order. A JSON file is the        *)
(* sequence of its members [k, v], k being the key string as the sequence  *)
(* of its comma-separated fields. Vector elements are floats, written here *)
(* as the integers of QVals.                                               *)
(***************************************************************************)
Int0 == [v |-> 0, f |-> FALSE]
Flt(h) == [v |-> h, f |-> TRUE]
\* The start state (0,) and a state tuple(score).
StartState == <<Int0>>
MissState == <<Flt(ABSENT), Flt(PRESENT), Flt(CORRECT), Flt(ABSENT), Flt(CORRECT)>>
QKeys == {StartState, MissState}
QVals == {0, 1}

\* The value a key is compared and hashed by.
KeyId(key) == [i \in DOMAIN key |-> key[i].v]
KeyIds == {KeyId(key) : key \in QKeys}

\* str(x) for the numbers of the model.
StrNum(x) ==
    IF x.f
    THEN CASE x.v = 0 -> "0.0" [] x.v = -1 -> "-0.5" [] x.v = -2 -> "-1.0"
    ELSE CASE x.v = 0 -> "0"
\* float(s): the number, or a ValueError.
ParseFloat(s) ==
    CASE s = "0" -> [ok |-> TRUE, num |-> Flt(0)]
      [] s = "0.0" -> [ok |-> TRUE, num |-> Flt(0)]
      [] s = "-0.5" -> [ok |-> TRUE, num |-> Flt(-1)]
      [] s = "-1.0" -> [ok |-> TRUE, num |-> Flt(-2)]
      [] OTHER -> [ok |-> FALSE, num |-> Flt(0)]
\* ",".join(map(str, k)): the fields of the string; the empty tuple gives the
\* empty string, which has the one field "".
KeyStr(key) == IF key = <<>> THEN <<"">> ELSE [i \in DOMAIN key |-> StrNum(key[i])]
\* tuple(map(float, k.split(",")))
KeyParses(fields) == \A i \in DOMAIN fields : ParseFloat(fields[i]).ok
ParseKey(fields) == [i \in DOMAIN fields |-> ParseFloat(fields[i]).num]

QHas(q, key) == \E i \in DOMAIN q : KeyId(q[i].key) = KeyId(key)
QPos(q, key) == CHOOSE i \in DOMAIN q : KeyId(q[i].key) = KeyId(key)
QGet(q, key) == q[QPos(q, key)].vec
QPosId(q, id) == CHOOSE i \in DOMAIN q : KeyId(q[i].key) = id
\* dict.__setitem__: a key already there keeps its place and its key object.
QSet(q, key, vec) ==
    IF QHas(q, key) THEN [q EXCEPT ![QPos(q, key)].vec = vec]
    ELSE Append(q, [key |-> key, vec |-> vec])

\* np.zeros(self.length)
Zeros(n) == [i \in 1..n |-> 0]

\* Qsa.__missing__: store a zero vector under the key and return the stored
\* vector. The result is the dict after the call and whether the vector
\* returned is the stored object.
Missing(q, key, n) == [q |-> QSet(q, key, Zeros(n)), stored |-> TRUE]

\* The text json.dump writes for a vector element (repr of the float) and
\* the float json.load reads from a number's text.
ValStr(x) == CASE x = 0 -> "0.0" [] x = 1 -> "1.0"
ParseVal(s) == CASE s = "0.0" -> 0 [] s = "1.0" -> 1 [] s = "0" -> 0 [] s = "1" -> 1
\* A member of the JSON object in the file: its key as the comma-separated
\* fields, and its value, a list of numbers (list) or a single number.
Member(k, vec) == [k |-> k, list |-> TRUE, v |-> [i \in DOMAIN vec |-> ValStr(vec[i])]]
\* np.array(v): the vector of the list's numbers; of a single number, an
\* array of no dimensions, which has no element an index reaches (<<>> here).
NpArray(m) == IF m.list THEN [i \in DOMAIN m.v |-> ParseVal(m.v[i])] ELSE <<>>

\* The vector object a caller holds: the state it was looked up for, whether
\* it is the object the dict stores (live), whether a load() has replaced
\* the dict's contents since (stale), and whether it is an object that the
\* dict stored when the last snapshot was taken (insnap).
NoRef ==
    [held |-> FALSE, id |-> <<>>, live |-> FALSE, stale |-> FALSE,
     insnap |-> FALSE, vec |-> <<>>]
NoExpect == [id \in KeyIds |-> <<>>]
NoCounts == <<>>
\* No snapshot yet. A snapshot is the dict it returned (q: its entries, each
\* with whether its vector is the very object the store holds), the entries
\* as they were when it was taken (orig), and whether a load() has replaced
\* the store's contents since (stale).
NoSnap == [taken |-> FALSE, stale |-> FALSE, q |-> <<>>, orig |-> <<>>]
NoSaved == [self |-> FALSE, q |-> <<>>]
\* No policy call yet. A policy call is its kind ("eps" or "max"), epsilon
\* (eps EpsDen-ths), the state, whether the state was in the store before
\* the call, the probabilities the draw was made from (each a number of
\* (qlen * EpsDen)-ths), and the action index returned (from 0).
NoPol ==
    [kind |-> "none", eps |-> 0, state |-> <<>>, seen |-> FALSE,
     probs |-> <<>>, action |-> 0]

\* A file another store of m actions wrote with save() after its start
\* state had been looked up.
SavedByOther(m) ==
    [exists |-> TRUE, json |-> TRUE,
     data |-> <<Member(KeyStr(StartState), Zeros(m))>>]
NoFile == [exists |-> FALSE, json |-> FALSE, data |-> <<>>]
\* Files that are not value stores: text that is not JSON; an object with a
\* key that is not numbers joined by commas; an object with a value that is
\* a number, not a list of numbers.
NotJson == [exists |-> TRUE, json |-> FALSE, data |-> <<>>]
BadKey ==
    [exists |-> TRUE, json |-> TRUE,
     data |-> <<Member(KeyStr(StartState), Zeros(1)), Member(<<"0", "x">>, Zeros(1))>>]
BadValue ==
    [exists |-> TRUE, json |-> TRUE,
     data |-> <<[k |-> KeyStr(StartState), list |-> FALSE, v |-> <<"1">>]>>]
Files ==
    {NoFile, NotJson, BadKey, BadValue} \cup {SavedByOther(m) : m \in 1..MaxActions}

StoreIdle ==
    /\ qlen = 1 /\ Q = <<>> /\ file = NoFile
    /\ ref = NoRef /\ qop = "init" /\ qkey = <<>> /\ qret = <<>>
    /\ qerr = "none" /\ qnew = FALSE /\ expect = NoExpect
    /\ counts = NoCounts /\ snap = NoSnap /\ saved = NoSaved
    /\ pol = NoPol /\ nops = 0

\* Qsa(num_actions=n), and what the file system holds.
StoreInit ==
    /\ qlen \in 1..MaxActions
    /\ Q = <<>>
    /\ file \in Files
    /\ ref = NoRef /\ qop = "init" /\ qkey = <<>> /\ qret = <<>>
    /\ qerr = "none" /\ qnew = FALSE /\ expect = NoExpect
    /\ counts = NoCounts /\ snap = NoSnap /\ saved = NoSaved
    /\ pol = NoPol /\ nops = 0

\* self.Q[key]: dict lookup, through __missing__ when the key is not there.
Lookup(key) ==
    LET miss == ~QHas(Q, key)
        m == Missing(Q, key, qlen)
        q1 == IF miss THEN m.q ELSE Q
        live == IF miss THEN m.stored ELSE TRUE
        vec == IF live THEN QGet(q1, key) ELSE Zeros(qlen)
    IN  /\ Q' = q1
        /\ ref' = [held |-> TRUE, id |-> KeyId(key), live |-> live,
                   stale |-> FALSE,
                   insnap |-> snap.taken /\ ~snap.stale /\ QHas(snap.q, key),
                   vec |-> vec]
        /\ qop' = "lookup" /\ qkey' = key /\ qret' = vec /\ qerr' = "none"
        /\ qnew' = miss
        /\ UNCHANGED <<qlen, file, expect, counts, snap, saved, pol>>

\* vec[a] = x on the vector the last lookup returned. The stored vector
\* changes when the object is still the one the dict holds, and so does a
\* snapshot that shares the object.
Update(a, x) ==
    /\ ref.held
    /\ a \in DOMAIN ref.vec
    /\ LET vec == [ref.vec EXCEPT ![a] = x]
       IN  /\ ref' = [ref EXCEPT !.vec = vec]
           /\ Q' = IF ref.live THEN [Q EXCEPT ![QPosId(Q, ref.id)].vec = vec]
                   ELSE Q
           /\ expect' = IF ref.stale THEN expect ELSE [expect EXCEPT ![ref.id] = vec]
           /\ snap' = IF ref.insnap /\ snap.q[QPosId(snap.q, ref.id)].shared
                      THEN [snap EXCEPT !.q[QPosId(snap.q, ref.id)].vec = vec]
                      ELSE snap
    /\ qop' = "update" /\ qkey' = <<>> /\ qret' = <<>> /\ qerr' = "none"
    /\ qnew' = FALSE
    /\ UNCHANGED <<qlen, file, counts, saved, pol>>

\* Qsa.save: every entry, in the dict's order, with its key as a string.
\* list(v) of an array of no dimensions raises a TypeError, before the file
\* is opened (every vector of the model has an element, so <<>> is such an
\* array).
Save ==
    /\ IF \E i \in DOMAIN Q : Q[i].vec = <<>>
       THEN qerr' = "type" /\ UNCHANGED <<file, saved>>
       ELSE /\ file' = [exists |-> TRUE, json |-> TRUE,
                        data |-> [i \in DOMAIN Q |->
                                     Member(KeyStr(Q[i].key), Q[i].vec)]]
            /\ saved' = [self |-> TRUE, q |-> Q]
            /\ qerr' = "none"
    /\ qop' = "save" /\ qkey' = <<>> /\ qret' = <<>>
    /\ qnew' = FALSE
    /\ UNCHANGED <<qlen, Q, ref, expect, counts, snap, pol>>

\* The loop of Qsa.load over the members of the file: the first key that
\* float() rejects ends it with a ValueError and the entries set so far.
RECURSIVE LoadItems(_, _)
LoadItems(q, items) ==
    IF items = <<>> THEN [q |-> q, err |-> "none"]
    ELSE IF ~KeyParses(Head(items).k) THEN [q |-> q, err |-> "value"]
    ELSE LoadItems(QSet(q, ParseKey(Head(items).k), NpArray(Head(items))),
                   Tail(items))

\* Variant of Load: the dict is not cleared before it is filled.
LoadKeepsEntries ==
    /\ IF ~file.exists \/ ~file.json
       THEN /\ qerr' = IF file.exists THEN "json" ELSE "missing"
            /\ UNCHANGED <<Q, ref, expect, snap>>
       ELSE LET r == LoadItems(Q, file.data)
            IN  /\ Q' = r.q
                /\ qerr' = r.err
                /\ ref' = IF ref.held
                          THEN [ref EXCEPT !.live = FALSE, !.stale = TRUE]
                          ELSE ref
                /\ expect' = NoExpect
                /\ snap' = [snap EXCEPT !.stale = snap.taken]
    /\ qop' = "load" /\ qkey' = <<>> /\ qret' = <<>> /\ qnew' = FALSE
    /\ UNCHANGED <<qlen, file, counts, saved, pol>>
\* Qsa.load: a missing file and a text that is not JSON raise before
\* anything changes; otherwise the dict is cleared and filled from the file,
\* with the vectors as the file has them.
Load ==
    /\ IF ~file.exists \/ ~file.json
       THEN /\ qerr' = IF file.exists THEN "json" ELSE "missing"
            /\ UNCHANGED <<Q, ref, expect, snap>>
       ELSE LET r == LoadItems(<<>>, file.data)
            IN  /\ Q' = r.q
                /\ qerr' = r.err
                /\ ref' = IF ref.held
                          THEN [ref EXCEPT !.live = FALSE, !.stale = TRUE]
                          ELSE ref
                /\ expect' = NoExpect
                /\ snap' = [snap EXCEPT !.stale = snap.taken]
    /\ qop' = "load" /\ qkey' = <<>> /\ qret' = <<>> /\ qnew' = FALSE
    /\ UNCHANGED <<qlen, file, counts, saved, pol>>

LookupAny == \E key \in QKeys : Lookup(key)
UpdateAny == \E a \in 1..MaxActions, x \in QVals : Update(a, x)

StoreOnly ==
    UNCHANGED <<gameVars, callVars, histVars, filterVars, nops, agentVars>>
StoreNext ==
    \/ LookupAny /\ StoreOnly
    \/ UpdateAny /\ StoreOnly
    \/ Save /\ StoreOnly
    \/ Load /\ StoreOnly

InitStore == StoreInit /\ GameIdle /\ FilterIdle /\ AgentIdle
SpecStore == InitStore /\ [][StoreNext]_vars

(***************************************************************************)
(* Qsa: visit counts and snapshots (rl_utils.py lines 44-46, 93-99, 148).  *)
(***************************************************************************)
\* Variant of snapshot: dict(self) without the deep copy; the vectors are
\* the objects the store holds.
snapshot_shallow(q) ==
    [i \in DOMAIN q |-> [key |-> q[i].key, vec |-> q[i].vec, shared |-> TRUE]]
\* copy.deepcopy(dict(self)): a plain dict with the store's keys and a copy
\* of every vector.
snapshot(q) ==
    [i \in DOMAIN q |-> [key |-> q[i].key, vec |-> q[i].vec, shared |-> FALSE]]

\* Qsa.snapshot
Snapshot ==
    /\ snap' = [taken |-> TRUE, stale |-> FALSE, q |-> snapshot(Q),
                orig |-> Q]
    /\ ref' = [ref EXCEPT !.insnap = ref.held /\ ref.live]
    /\ qop' = "snapshot" /\ qkey' = <<>> /\ qret' = <<>> /\ qerr' = "none"
    /\ qnew' = FALSE
    /\ UNCHANGED <<qlen, Q, file, expect, counts, saved, pol>>

\* self.counts, a defaultdict(int): the count of a state, 0 if it has no
\* entry, and the dict after self.counts[key] += 1.
CountOf(c, key) ==
    IF \E i \in DOMAIN c : KeyId(c[i].key) = KeyId(key)
    THEN c[CHOOSE i \in DOMAIN c : KeyId(c[i].key) = KeyId(key)].n
    ELSE 0
visit(c, key) ==
    IF \E i \in DOMAIN c : KeyId(c[i].key) = KeyId(key)
    THEN [c EXCEPT ![CHOOSE i \in DOMAIN c : KeyId(c[i].key) = KeyId(key)].n = @ + 1]
    ELSE Append(c, [key |-> key, n |-> 1])

\* Qsa.visit
Visit(key) ==
    /\ CountOf(counts, key) < MaxVisits
    /\ counts' = visit(counts, key)
    /\ qop' = "visit" /\ qkey' = key /\ qret' = <<>> /\ qerr' = "none"
    /\ qnew' = FALSE
    /\ UNCHANGED <<qlen, Q, file, ref, expect, snap, saved, pol>>

\* Qsa.reset: self.counts.clear()
ResetCounts ==
    /\ counts' = NoCounts
    /\ qop' = "reset" /\ qkey' = <<>> /\ qret' = <<>> /\ qerr' = "none"
    /\ qnew' = FALSE
    /\ UNCHANGED <<qlen, Q, file, ref, expect, snap, saved, pol>>

VisitAny == \E key \in QKeys : Visit(key)

\* sum(self.counts.values())
TotalVisits(c) == SumSeq([i \in DOMAIN c |-> c[i].n])
\* The dict statistics() returns: states is len(self), the number of entries
\* of the state-to-vector dict; visits a copy of the counts; avg_visits the
\* quotient avg_num / avg_den, whose divisor is len(self) again.
statistics(q, c) ==
    [states |-> Len(q), visits |-> c, avg_num |-> TotalVisits(c),
     avg_den |-> Len(q)]
\* Qsa.statistics: a ZeroDivisionError for a store without states.
Statistics ==
    /\ IF Len(Q) = 0
       THEN qret' = <<>> /\ qerr' = "zerodivision"
       ELSE qret' = statistics(Q, counts) /\ qerr' = "none"
    /\ qop' = "statistics" /\ qkey' = <<>> /\ qnew' = FALSE
    /\ UNCHANGED <<qlen, Q, file, ref, expect, counts, snap, saved, pol>>

\* One more call, of at most MaxCalls.
Budget == nops < MaxCalls /\ nops' = nops + 1
SnapOnly ==
    Budget /\ UNCHANGED <<gameVars, callVars, histVars, filterVars, agentVars>>
SnapNext ==
    \/ LookupAny /\ SnapOnly
    \/ UpdateAny /\ SnapOnly
    \/ VisitAny /\ SnapOnly
    \/ ResetCounts /\ SnapOnly
    \/ Load /\ SnapOnly
    \/ Snapshot /\ SnapOnly
    \/ Statistics /\ SnapOnly

SpecSnap == InitStore /\ [][SnapNext]_vars

(***************************************************************************)
(* Qsa: the two policies (rl_utils.py lines 119-146).                      *)
(***************************************************************************)
\* Variant of ArgMax: of equal values the last one wins.
RECURSIVE ArgMaxLast(_, _, _)
ArgMaxLast(vec, i, best) ==
    IF i > Len(vec) THEN best
    ELSE ArgMaxLast(vec, i + 1, IF vec[i] >= vec[best] THEN i ELSE best)
\* np.argmax: a scan that keeps the first of the largest values; the
\* position found so far is best, the next one to look at is i.
RECURSIVE ArgMax(_, _, _)
ArgMax(vec, i, best) ==
    IF i > Len(vec) THEN best
    ELSE ArgMax(vec, i + 1, IF vec[i] > vec[best] THEN i ELSE best)

\* Variant of EpsProbs: the best action's probability is set to 1 - epsilon,
\* its share of epsilon is lost.
EpsProbsAssign(n, eps, best) ==
    [i \in 1..n |-> IF i = best THEN n * (EpsDen - eps) ELSE eps]
\* np.ones(n) * epsilon / n, then probabilities[best] += 1.0 - epsilon; in
\* (n * EpsDen)-ths.
EpsProbs(n, eps, best) ==
    [i \in 1..n |-> eps + (IF i = best THEN n * (EpsDen - eps) ELSE 0)]

\* The dict after Q[state], which stores zeros for a state not yet there.
AfterLookup(q, state, n) == IF QHas(q, state) THEN q ELSE Missing(q, state, n).q

\* policy_fn of createEpsilonPolicy(eps / EpsDen): np.random.choice returns
\* any action whose probability is not 0.
EpsPolicy(eps, state) ==
    LET q1 == AfterLookup(Q, state, qlen)
        best == ArgMax(QGet(q1, state), 1, 1)
        probs == EpsProbs(qlen, eps, best)
    IN  /\ Q' = q1
        /\ \E a \in 1..qlen :
               /\ probs[a] > 0
               /\ pol' = [kind |-> "eps", eps |-> eps, state |-> state,
                          seen |-> QHas(Q, state), probs |-> probs,
                          action |-> a - 1]
        /\ qop' = "policy" /\ qkey' = state /\ qret' = <<>> /\ qerr' = "none"
        /\ qnew' = ~QHas(Q, state)
        /\ UNCHANGED <<qlen, file, ref, expect, counts, snap, saved>>

\* policy_fn of createMaximizeValuePolicy
MaxPolicy(state) ==
    LET q1 == AfterLookup(Q, state, qlen)
        best == ArgMax(QGet(q1, state), 1, 1)
    IN  /\ Q' = q1
        /\ pol' = [kind |-> "max", eps |-> 0, state |-> state,
                   seen |-> QHas(Q, state), probs |-> <<>>,
                   action |-> best - 1]
        /\ qop' = "policy" /\ qkey' = state /\ qret' = <<>> /\ qerr' = "none"
        /\ qnew' = ~QHas(Q, state)
        /\ UNCHANGED <<qlen, file, ref, expect, counts, snap, saved>>

EpsPolicyAny == \E eps \in 0..EpsDen, state \in QKeys : EpsPolicy(eps, state)
MaxPolicyAny == \E state \in QKeys : MaxPolicy(state)

\* A store that was not loaded from a file: Qsa(num_actions=n).
PolicyInit ==
    StoreInit /\ file = NoFile /\ GameIdle /\ FilterIdle /\ AgentIdle
PolicyNext ==
    \/ LookupAny /\ SnapOnly
    \/ UpdateAny /\ SnapOnly
    \/ EpsPolicyAny /\ SnapOnly
    \/ MaxPolicyAny /\ SnapOnly

SpecPolicy == PolicyInit /\ [][PolicyNext]_vars

(***************************************************************************)
(* The learning agents (rl_base.py, qlearning.py, sarsa.py).               *)
(*                                                                         *)
(* A value of the store is kept as an integer: the float times 2 * Scale,  *)
(* so a score sum of h halves is h * Scale. With alpha = 1/AlphaDen and    *)
(* gamma = Gamma every value the agents compute is such an integer, as it  *)
(* is an exact binary fraction in the code's floats. Action indices are    *)
(* positions here: the code's action k is k + 1.                           *)
(***************************************************************************)
\* for round in range(6)
MaxRounds == 6
\* reward += 5, in halves
Bonus == 10
\* alpha = 1/2 and gamma = 1.0, given to the constructor
AlphaDen == 2
Gamma == 1
Scale == 2^20

ACTION_TABLE == <<"exploration", "tglp", "random">>
\* The action_table given to the constructor, by its length.
ActionTable(n) ==
    CASE n = 1 -> <<"tglp">>
      [] n = 2 -> <<"tglp", "random">>
      [] OTHER -> ACTION_TABLE

\* The tglp_table given to the constructor.
TglpTable ==
    [w \in Range(AgentLarge) |->
        CASE w = fight -> 3 [] w = light -> 5 [] w = might -> 5
          [] w = night -> 2 [] w = right -> 4 [] w = sight -> 1
          [] w = tight -> 0]
\* score(word): the number of distinct letters.
Distinct(w) == Cardinality(Range(w))

\* Python's order of tuples of numbers: by the first element that differs.
TupleLess(x, y) ==
    \E i \in DOMAIN x : x[i] < y[i] /\ \A j \in 1..(i - 1) : x[j] = y[j]
\* choices.sort(key=..., reverse=True); choices[0][0]: the sort is stable,
\* so the guess is the first word of the list with the largest key.
FirstBest(ws, keys) ==
    ws[CHOOSE i \in DOMAIN ws :
           /\ \A j \in DOMAIN ws : ~TupleLess(keys[i], keys[j])
           /\ \A j \in 1..(i - 1) : TupleLess(keys[j], keys[i])]

\* Variant of guess_by_random: a word of the agent's whole list.
guess_by_random_all(ws) == Range(ag.words)
\* The words an action function may return for a list that is not empty:
\* random.choice(words); the best by key=itemgetter(1), the TGLP; the best
\* by key=itemgetter(1, 2), the number of distinct letters, then the TGLP.
guess_by_random(ws) == Range(ws)
guess_by_tglp(ws) ==
    {FirstBest(ws, [i \in DOMAIN ws |-> <<TglpTable[ws[i]]>>])}
guess_by_exploration(ws) ==
    {FirstBest(ws, [i \in DOMAIN ws |-> <<Distinct(ws[i]), TglpTable[ws[i]]>>])}
ActionGuesses(name, ws) ==
    CASE name = "random" -> guess_by_random(ws)
      [] name = "tglp" -> guess_by_tglp(ws)
      [] name = "exploration" -> guess_by_exploration(ws)

\* tuple(score)
ScoreState(score) == [i \in DOMAIN score |-> Flt(score[i])]
\* The score of a wrong guess among the agents' words.
WrongState == ScoreState(<<ABSENT, CORRECT, CORRECT, CORRECT, CORRECT>>)

\* The outcomes of policy(state): the dict after the lookup and the action.
\* The policy of the epsilon_greedy attribute is createEpsilonPolicy(eps),
\* that of max_value is createMaximizeValuePolicy().
PolicyChoices(q, state, eps_greedy, eps, n) ==
    LET q1 == AfterLookup(q, state, n)
        best == ArgMax(QGet(q1, state), 1, 1)
    IN  IF eps_greedy
        THEN {[q |-> q1, a |-> a] : a \in {b \in 1..n : EpsProbs(n, eps, best)[b] > 0}}
        ELSE {[q |-> q1, a |-> best]}

Abs(x) == IF x < 0 THEN -x ELSE x

\* td_target of Q-learning: reward + gamma * Q[next_state][argmax].
QTarget(reward, vec2) == reward * Scale + Gamma * vec2[ArgMax(vec2, 1, 1)]

\* Variant of SarsaTarget: the best value of the next state, not the value
\* of the action chosen.
SarsaTargetBest(reward, vec2, a2) ==
    reward * Scale + Gamma * vec2[ArgMax(vec2, 1, 1)]
\* td_target of Sarsa: reward + gamma * Q[next_state][next_action].
SarsaTarget(reward, vec2, a2) == reward * Scale + Gamma * vec2[a2]

\* self.Q[state][action] += x
QAddAt(q, state, a, x) == [q EXCEPT ![QPos(q, state)].vec[a] = @ + x]

\* A store an agent is given: empty, or with values for the state of a wrong
\* guess that differ from action to action.
GivenStores(n) ==
    {<<>>, <<[key |-> WrongState, vec |-> [i \in 1..n |-> (n + 1 - i) * Scale]]>>}

\* The result dict of an episode, with the place of its answer in the
\* sequence (pos) and the mode it was played in.
NewResult ==
    [guesses |-> <<>>, word |-> NoWord, result |-> 0, score |-> 0,
     learning_delta |-> 0, pos |-> 0, training |-> FALSE]
\* No call of play() or train() yet. A call is its name, the n of the play()
\* under way with its count and history, the part of train() it belongs to,
\* train()'s word count, snapshots and statistics, the results of the plays
\* that returned, and the entries of the store, its visit counts and the
\* game's index when the call was made.
NoRun ==
    [call |-> "none", n |-> 0, count |-> 0, history |-> <<>>, phase |-> "none",
     pct |-> 0, twc |-> 0, pre |-> <<>>, post |-> <<>>, stats |-> <<>>,
     results |-> <<>>, delta |-> 0, q0 |-> <<>>, c0 |-> NoCounts, i0 |-> 0]
\* The locals of play_once: words, result, state, action, round, done and
\* policy ("eps" for the function of the attribute epsilon_greedy, "max"
\* for that of max_value, "unset" when the attribute read does not exist),
\* with the number of states entered and of policy calls made.
NoEp ==
    [words |-> <<>>, result |-> NewResult, state |-> <<>>, action |-> 0,
     round |-> 0, done |-> FALSE, entered |-> 0, polcalls |-> 0,
     policy |-> "none"]
\* No step yet. A step is the round it was made in, the state and action it
\* was made from, its guess, score and reward, the next state, the action
\* chosen there (0 if none was), the vector of the next state when the
\* target was computed, the value updated before and after, the learning
\* delta before and after, the action the step before chose for this one,
\* and whether alpha * td_delta was exact.
NoLast ==
    [round |-> -1, kind |-> "none", training |-> FALSE, state |-> <<>>,
     action |-> 0, guess |-> <<>>, score |-> <<>>, reward |-> 0,
     next_state |-> <<>>, next_action |-> 0, next_vec |-> <<>>,
     old |-> 0, new |-> 0, ld_old |-> 0, ld_new |-> 0, carried |-> 0,
     exact |-> TRUE, at |-> <<>>]

\* The agent: its class, its training flag (the constructor's argument,
\* later set by training_mode), its word list, epsilon (over EpsDen), whether its user has
\* assigned the attributes epsilon_greedy and max_value (the constructor
\* does not, its two lines are commented out), self.policy and
\* self.guesses. The action table is ActionTable(qlen).
AgentsWith(lists) ==
    [kind : {"qlearning", "sarsa"}, training : BOOLEAN, words : lists,
     eps : {0, 1}, hasPolicies : BOOLEAN,
     policy : {"none"}, guesses : {<<>>}]
\* self.words after the constructor's shuffle is any order of the list.
Agents == AgentsWith(Shuffles(AgentSmall))

\* The game and the store of a new agent. The game allows every word of the
\* long list and has not been started.
AgentRest ==
    /\ randomize = FALSE
    /\ words = Range(AgentLarge)
    /\ index = 0
    /\ word = NoWord
    /\ op = "init" /\ arg = <<>> /\ sret = "none" /\ gret = <<>>
    /\ err = "none" /\ pword = NoWord
    /\ starts = 0 /\ answers0 = answers /\ resetFrom = -1
    /\ file = NoFile
    /\ ref = NoRef /\ qop = "init" /\ qkey = <<>> /\ qret = <<>>
    /\ qerr = "none" /\ qnew = FALSE /\ expect = NoExpect
    /\ counts = NoCounts /\ snap = NoSnap /\ saved = NoSaved
    /\ pol = NoPol /\ nops = 0
    /\ run = NoRun /\ ep = NoEp /\ pc = "idle" /\ aerr = "none"
    /\ last = NoLast

\* The answers of a game: n words of the short list.
TrainAnswers(n) == [i \in 1..n |-> IF i % 2 = 1 THEN light ELSE fight]
\* BaseRLAgent.__init__: an agent constructed without a store (or with an
\* empty one) and without a file is put in training mode.
Constructed(a, q) == q = <<>> => a.training
\* The agents that play(): constructed with the short list, which the
\* constructor left in any order, up to MaxAnswers answers of the list, or
\* answers that start with a word outside it, and any given store; those
\* that explore (epsilon > 0) have one answer at most.
AgentInit ==
    /\ ag \in Agents
    /\ answers \in {TrainAnswers(n) : n \in 0..MaxAnswers}
                       \cup {<<tight>>, <<tight, light>>}
    /\ qlen \in 1..MaxActions
    /\ Q \in GivenStores(qlen)
    /\ Constructed(ag, Q)
    /\ ag.eps > 0 => Len(answers) <= 1
    /\ AgentRest

\* The agents that play() up to the cap of rounds: constructed with the long
\* list in any order, one action that is not random, policies that do not
\* explore, and an answer that the action reaches last.
CapInit ==
    /\ ag \in {a \in AgentsWith(Shuffles(AgentLarge)) :
                   a.training /\ a.hasPolicies /\ a.eps = 0}
    /\ answers = <<tight>>
    /\ qlen = 1
    /\ Q = <<>>
    /\ AgentRest

\* The agents that train(): as constructed without a store or a file, which
\* puts them in training mode, with the short list in any order and up to
\* MaxAnswers + 1 answers; those that explore (epsilon > 0) have one, and
\* those with MaxAnswers + 1 have one action.
TrainInit ==
    /\ ag \in {a \in Agents : a.training}
    /\ answers \in {TrainAnswers(n) : n \in 0..(MaxAnswers + 1)}
    /\ qlen \in 1..MaxActions
    /\ ag.eps > 0 => Len(answers) <= 1
    /\ Len(answers) > MaxAnswers => qlen = 1
    /\ Q = <<>>
    /\ AgentRest

NoGameCall == UNCHANGED <<gameVars, callVars, histVars>>
\* No call is under way on the agent: none was made yet, or the last one
\* has returned or raised.
AtRest == pc \in {"idle", "returned", "raised"}
\* What a call finds of the call before it: nothing, its locals are gone.
NoCallLeft == ep' = NoEp /\ last' = NoLast /\ aerr' = "none"
Raise(e) == pc' = "raised" /\ aerr' = e

\* BaseRLAgent.play(n): the policy attribute is set by the mode, then
\* BaseAgent.play starts its loop.
Play(n) ==
    /\ AtRest
    /\ ag' = [ag EXCEPT !.policy = IF ag.training THEN "eps" ELSE "max"]
    /\ run' = [NoRun EXCEPT !.call = "play", !.n = n, !.phase = "single",
                            !.q0 = Q, !.c0 = counts, !.i0 = index]
    /\ pc' = "loop"
    /\ NoCallLeft
    /\ NoGameCall
    /\ UNCHANGED <<Q, counts>>

\* BaseRLAgent.training_mode(train): self.training = train.
training_mode(a, train) == [a EXCEPT !.training = train]
TrainingMode(train) ==
    /\ AtRest
    /\ ag' = training_mode(ag, train)
    /\ run' = NoRun /\ pc' = "idle"
    /\ NoCallLeft
    /\ NoGameCall
    /\ UNCHANGED <<Q, counts>>

\* BaseRLAgent.reset: self.Q.reset() clears the visit counts, then
\* BaseAgent.reset shuffles self.words and resets the game.
AgentReset ==
    /\ AtRest
    /\ counts' = NoCounts
    /\ \E ws \in Shuffles(ag.words) : ag' = [ag EXCEPT !.words = ws]
    /\ Reset
    /\ run' = NoRun /\ pc' = "idle"
    /\ NoCallLeft
    /\ Q' = Q

\* train_pct /= 100 and len(self.game.answers) * train_pct are computed in
\* binary floating point with 53 bits. The quotient pct / 100 is rounded to
\* m / 2^(52 + c), c the least number with pct * 2^c >= 100; it is rounded
\* down, by r / (100 * 2^(52 + c)), when the remainder r of pct * 2^(52 + c)
\* by 100 is under 50.
RECURSIVE Pow2Mod100(_)
Pow2Mod100(e) == IF e = 0 THEN 1 ELSE (2 * Pow2Mod100(e - 1)) % 100
RECURSIVE BinExp(_, _)
BinExp(pct, c) == IF pct * 2^c >= 100 THEN c ELSE BinExp(pct, c + 1)
QuotientRemainder(pct) == (pct * Pow2Mod100(52 + BinExp(pct, 0))) % 100
\* The j with 2^j < k <= 2^(j + 1), for k >= 1: the floats just under k are
\* 2^(j - 52) apart.
RECURSIVE Log2Below(_, _)
Log2Below(k, j) == IF k <= 2^(j + 1) THEN j ELSE Log2Below(k, j + 1)
\* int(len(self.game.answers) * train_pct) after train_pct /= 100. When
\* len * pct / 100 is no whole number the float product is as far from a
\* whole number and int() gives the floor. When it is a whole number k, the
\* product is k less len * r / (100 * 2^(52 + c)) for a quotient rounded
\* down, and it is rounded to the float under k, which int() cuts to k - 1,
\* when that is more than half the distance 2^(j - 52).
training_word_count(len, pct) ==
    LET k == (len * pct) \div 100
        r == QuotientRemainder(pct)
        x == BinExp(pct, 0) + Log2Below(k, -1) - 1
    IN  IF (len * pct) % 100 # 0 \/ k = 0 \/ r = 0 \/ r > 50 THEN k
        ELSE IF x >= 0 /\ len * r > 100 * 2^x THEN k - 1
        ELSE IF x < 0 /\ len * r * 2 > 100 THEN k - 1
        ELSE k

\* BaseRLAgent.train(train_pct) up to the loop of its first play().
Train(pct) ==
    /\ AtRest
    /\ ag' = [training_mode(ag, TRUE) EXCEPT !.policy = "eps"]
    /\ run' = [NoRun EXCEPT !.call = "train", !.phase = "training",
                            !.pct = pct,
                            !.twc = training_word_count(Len(answers), pct),
                            !.n = training_word_count(Len(answers), pct),
                            !.pre = snapshot(Q), !.q0 = Q,
                            !.c0 = counts, !.i0 = index]
    /\ pc' = "loop"
    /\ NoCallLeft
    /\ NoGameCall
    /\ UNCHANGED <<Q, counts>>

\* while self.game.start(): count += 1; if n and n < count: break
PlayLoop ==
    /\ pc = "loop"
    /\ Start
    /\ IF sret' = "false"
       THEN pc' = "summary" /\ run' = run
       ELSE /\ run' = [run EXCEPT !.count = @ + 1]
            /\ pc' = IF run.n # 0 /\ run.n < run.count + 1
                     THEN "summary" ELSE "begin"
    /\ UNCHANGED <<Q, counts, ag, ep, aerr, last>>

\* Variant of EpisodeWords: an episode after the first goes on with the list
\* the episode before it left.
EpisodeWordsLeftOver == IF ep.entered > 0 THEN ep.words ELSE ag.words
\* words = self.words.copy(): the candidate list an episode starts with.
EpisodeWords == ag.words
\* play_once up to its loop: the locals, the policy attribute read (an
\* AttributeError when it was never assigned), and for Sarsa the visit of
\* the start state and the first action.
PlayOnceBegin ==
    LET ep0 == [NoEp EXCEPT !.words = EpisodeWords, !.state = StartState,
                            !.entered = 1,
                            !.policy = IF ~ag.hasPolicies THEN "unset"
                                       ELSE IF ag.training THEN "eps" ELSE "max",
                            !.result = [NewResult EXCEPT !.pos = index,
                                                         !.training = ag.training]]
    IN  /\ pc = "begin"
        /\ ag' = [ag EXCEPT !.guesses = <<>>]
        /\ last' = NoLast
        /\ NoGameCall
        /\ IF ~ag.hasPolicies
           THEN /\ Raise("attribute")
                /\ ep' = ep0
                /\ UNCHANGED <<Q, counts, run>>
           ELSE IF ag.kind = "qlearning"
           THEN /\ ep' = ep0
                /\ pc' = "round"
                /\ UNCHANGED <<Q, counts, run, aerr>>
           ELSE \E ch \in PolicyChoices(Q, StartState, ep0.policy = "eps", ag.eps, qlen) :
                    /\ counts' = IF ag.training THEN visit(counts, StartState)
                                 ELSE counts
                    /\ Q' = ch.q
                    /\ ep' = [ep0 EXCEPT !.action = ch.a, !.polcalls = 1]
                    /\ pc' = "round"
                    /\ UNCHANGED <<run, aerr>>

\* One round of play_once's loop: the action (Q-learning asks the policy,
\* Sarsa has it from the step before), the guess of the action function (an
\* IndexError when no word is left), the game's score, the result, the
\* filtered list, and in training mode the update of the store.
PlayOnceStep ==
    /\ pc = "round"
    /\ \E ch \in (IF ag.kind = "qlearning"
                  THEN PolicyChoices(Q, ep.state, ep.policy = "eps", ag.eps, qlen)
                  ELSE {[q |-> Q, a |-> ep.action]}) :
         LET action == ch.a
             calls == ep.polcalls + (IF ag.kind = "qlearning" THEN 1 ELSE 0)
         IN  IF ep.words = <<>>
             THEN /\ Raise("index")
                  /\ Q' = ch.q
                  /\ ep' = [ep EXCEPT !.action = action, !.polcalls = calls]
                  /\ NoGameCall
                  /\ UNCHANGED <<counts, ag, run, last>>
             ELSE \E guess \in ActionGuesses(ActionTable(qlen)[action], ep.words) :
                  /\ Guess(guess)
                  /\ ag' = [ag EXCEPT !.guesses = Append(@, guess)]
                  /\ IF GuessError(word, guess) # "none"
                     THEN /\ Raise(GuessError(word, guess))
                          /\ Q' = ch.q
                          /\ ep' = [ep EXCEPT !.action = action, !.polcalls = calls]
                          /\ UNCHANGED <<counts, run, last>>
                     ELSE
                     LET score == score_guess(word[1], guess)
                         done == SumSeq(score) = 0
                         reward == SumSeq(score) + (IF done THEN Bonus ELSE 0)
                         next_state == ScoreState(score)
                         res1 == [ep.result EXCEPT
                                    !.guesses = Append(@, [guess |-> guess, score |-> score]),
                                    !.score = @ + reward,
                                    !.result = IF done THEN 1 ELSE @,
                                    !.word = IF done THEN <<guess>> ELSE @]
                         words1 == IF done THEN ep.words
                                   ELSE apply_guess(ep.words, guess, score).ret
                         nexts == IF ag.kind = "sarsa"
                                  THEN PolicyChoices(ch.q, next_state, ep.policy = "eps", ag.eps, qlen)
                                  ELSE {[q |-> IF ag.training
                                               THEN AfterLookup(ch.q, next_state, qlen)
                                               ELSE ch.q,
                                         a |-> 0]}
                     IN  \E nx \in nexts :
                         LET next_vec == IF QHas(nx.q, next_state)
                                         THEN QGet(nx.q, next_state) ELSE <<>>
                             td_target == IF ag.kind = "sarsa"
                                          THEN SarsaTarget(reward, next_vec, nx.a)
                                          ELSE QTarget(reward, next_vec)
                             old == QGet(nx.q, ep.state)[action]
                             td_delta == td_target - old
                             \* self.alpha * td_delta
                             step == td_delta \div AlphaDen
                             q3 == IF ag.training
                                   THEN QAddAt(nx.q, ep.state, action, step)
                                   ELSE nx.q
                             res2 == IF ag.training
                                     THEN [res1 EXCEPT !.learning_delta = @ + Abs(step)]
                                     ELSE res1
                             more == ~done /\ ep.round + 1 < MaxRounds
                         IN  /\ Q' = q3
                             /\ counts' = IF ag.training /\ ag.kind = "sarsa"
                                          THEN visit(counts, next_state)
                                          ELSE counts
                             /\ ep' = [ep EXCEPT
                                         !.words = words1,
                                         !.result = res2,
                                         !.done = done,
                                         !.round = @ + 1,
                                         !.entered = @ + 1,
                                         !.polcalls = calls + (IF ag.kind = "sarsa" THEN 1 ELSE 0),
                                         !.state = IF ag.kind = "sarsa" /\ ~done
                                                   THEN next_state ELSE @,
                                         !.action = IF ag.kind = "sarsa" /\ ~done
                                                    THEN nx.a ELSE action]
                             /\ last' = [round |-> ep.round, kind |-> ag.kind,
                                         training |-> ag.training,
                                         state |-> ep.state, action |-> action,
                                         guess |-> guess, score |-> score,
                                         reward |-> reward,
                                         next_state |-> next_state,
                                         next_action |-> nx.a,
                                         next_vec |-> next_vec,
                                         old |-> IF ag.training THEN old ELSE 0,
                                         new |-> IF ag.training
                                                 THEN QGet(q3, ep.state)[action] ELSE 0,
                                         ld_old |-> ep.result.learning_delta,
                                         ld_new |-> res2.learning_delta,
                                         carried |-> last.next_action,
                                         exact |-> (~ag.training) \/ td_delta % AlphaDen = 0,
                                         at |-> IF ep.round = 0 THEN StartState
                                                ELSE last.next_state]
                             /\ pc' = IF more THEN "round" ELSE "finish"
                             /\ UNCHANGED <<run, aerr>>

\* The end of play_once: an unsolved episode reports the game's word; the
\* result goes to the history of play().
PlayOnceEnd ==
    /\ pc = "finish"
    /\ run' = [run EXCEPT !.history =
                 Append(@, IF ep.done THEN ep.result
                           ELSE [ep.result EXCEPT !.word = word])]
    /\ pc' = "loop"
    /\ NoGameCall
    /\ UNCHANGED <<Q, counts, ag, ep, aerr, last>>

\* The totals play() adds up over its history; its averages are the totals
\* divided by len(history).
Summary(history) ==
    [history |-> history, count |-> Len(history),
     result_total |-> SumSeq([i \in DOMAIN history |-> history[i].result]),
     guess_total |-> SumSeq([i \in DOMAIN history |-> Len(history[i].guesses)]),
     score_total |-> SumSeq([i \in DOMAIN history |-> history[i].score])]

\* The end of BaseAgent.play: a ZeroDivisionError when no episode was played;
\* the result goes to the caller, which is train() or the agent's user.
PlayReturn ==
    /\ pc = "summary"
    /\ NoGameCall
    /\ UNCHANGED <<Q, counts, ag, ep, last>>
    /\ IF run.history = <<>>
       THEN Raise("zerodivision") /\ run' = run
       ELSE /\ run' = [run EXCEPT !.results = Append(@, Summary(run.history))]
            /\ pc' = CASE run.phase = "single" -> "returned"
                       [] run.phase = "training" -> "trained"
                       [] run.phase = "testing" -> "tested"
            /\ aerr' = aerr

\* BaseRLAgent.train between its two plays: the snapshot after training, the
\* statistics (which divide by len(self)), evaluation mode, and play().
TrainEvaluate ==
    /\ pc = "trained"
    /\ NoGameCall
    /\ UNCHANGED <<Q, counts, ep, last>>
    /\ IF Q = <<>>
       THEN /\ Raise("zerodivision")
            /\ run' = [run EXCEPT !.post = snapshot(Q)]
            /\ ag' = ag
       ELSE /\ run' = [run EXCEPT !.post = snapshot(Q),
                                  !.stats = statistics(Q, counts),
                                  !.phase = "testing", !.n = 0, !.count = 0,
                                  !.history = <<>>]
            /\ ag' = [training_mode(ag, FALSE) EXCEPT !.policy = "max"]
            /\ pc' = "loop"
            /\ aerr' = aerr

\* zip stops at the end of the shorter sequence.
ZipLen(a, b) == IF Len(a) < Len(b) THEN Len(a) ELSE Len(b)
\* before.get(key, default)
SnapGet(before, key, n) ==
    IF QHas(before, key) THEN QGet(before, key) ELSE Zeros(n)
\* BaseRLAgent.calculate_delta: the sum over the states of `after` of the
\* absolute differences of the values.
calculate_delta(before, after, n) ==
    SumSeq([i \in DOMAIN after |->
               SumSeq([k \in 1..ZipLen(SnapGet(before, after[i].key, n), after[i].vec) |->
                          Abs(after[i].vec[k] - SnapGet(before, after[i].key, n)[k])])])

\* The end of BaseRLAgent.train: the deltas between the two snapshots
\* (calculate_rms divides by the number of states of the second).
TrainReturn ==
    /\ pc = "tested"
    /\ NoGameCall
    /\ UNCHANGED <<Q, counts, ag, ep, last>>
    /\ IF run.post = <<>>
       THEN Raise("zerodivision") /\ run' = run
       ELSE /\ run' = [run EXCEPT !.delta = calculate_delta(run.pre, run.post, qlen)]
            /\ pc' = "returned"
            /\ aerr' = aerr

\* The percentages train() is called with, and the n of play().
TrainPcts == {0, 50, 75, 100}
PlayAny == \E n \in 0..MaxAnswers : Play(n)
TrainAny == \E pct \in TrainPcts : Train(pct)

TrainingModeAny == \E train \in BOOLEAN : TrainingMode(train)

AgentOnly ==
    UNCHANGED <<filterVars, qlen, file, qcallVars, snap, saved, pol, nops>>
\* A public call on the agent: one of the MaxAgentCalls of a run.
AgentCall ==
    /\ nops < MaxAgentCalls
    /\ nops' = nops + 1
    /\ UNCHANGED <<filterVars, qlen, file, qcallVars, snap, saved, pol>>
\* The calls of play(), reset() and training_mode() on an agent.
AgentNext ==
    \/ PlayAny /\ AgentCall
    \/ AgentReset /\ AgentCall
    \/ TrainingModeAny /\ AgentCall
    \/ PlayLoop /\ AgentOnly
    \/ PlayOnceBegin /\ AgentOnly
    \/ PlayOnceStep /\ AgentOnly
    \/ PlayOnceEnd /\ AgentOnly
    \/ PlayReturn /\ AgentOnly
InitAgent == AgentInit /\ FilterIdle
SpecAgent == InitAgent /\ [][AgentNext]_vars

\* One call of play() on an agent with the long list.
CapNext ==
    \/ (nops = 0 /\ PlayAny) /\ AgentCall
    \/ PlayLoop /\ AgentOnly
    \/ PlayOnceBegin /\ AgentOnly
    \/ PlayOnceStep /\ AgentOnly
    \/ PlayOnceEnd /\ AgentOnly
    \/ PlayReturn /\ AgentOnly
InitCap == CapInit /\ FilterIdle
SpecCap == InitCap /\ [][CapNext]_vars

\* The calls of train(), play(), reset() and training_mode() on an agent.
TrainNext ==
    \/ TrainAny /\ AgentCall
    \/ PlayAny /\ AgentCall
    \/ AgentReset /\ AgentCall
    \/ TrainingModeAny /\ AgentCall
    \/ PlayLoop /\ AgentOnly
    \/ PlayOnceBegin /\ AgentOnly
    \/ PlayOnceStep /\ AgentOnly
    \/ PlayOnceEnd /\ AgentOnly
    \/ PlayReturn /\ AgentOnly
    \/ TrainEvaluate /\ AgentOnly
    \/ TrainReturn /\ AgentOnly
InitTrain == TrainInit /\ FilterIdle
SpecTrain == InitTrain /\ [][TrainNext]_vars

(***************************************************************************)
(* The specifications: the game session, the candidate filter and the      *)
(* value store, each with the other parts at rest.                         *)
(***************************************************************************)
GameOnly ==
    UNCHANGED <<filterVars, storeVars, qcallVars, qmoreVars, agentVars>>
Next ==
    \/ (index < MaxIndex /\ Start) /\ GameOnly
    \/ GuessAny /\ GameOnly
    \/ Reset /\ GameOnly

Init == GameInit /\ FilterIdle /\ StoreIdle /\ AgentIdle
Spec == Init /\ [][Next]_vars

FilterNext ==
    ApplyGuess /\ UNCHANGED <<gameVars, callVars, histVars, storeVars, qcallVars,
                              qmoreVars, agentVars>>

InitFilter == FilterInit /\ GameIdle /\ StoreIdle /\ AgentIdle
SpecFilter == InitFilter /\ [][FilterNext]_vars

(***************************************************************************)
(* Properties of the game umpire, checked under Spec.                      *)
(***************************************************************************)
Scored == op = "guess" /\ err = "none"
AllCorrect == [i \in 1..WordLen |-> CORRECT]
\* The positions of guess g that hold letter c / that are credited for it.
Holding(g, c) == {i \in DOMAIN g : g[i] = c}
Credited(g, rtn, c) == {i \in Holding(g, c) : rtn[i] \in {PRESENT, CORRECT}}

\* C1: a score credits each letter (PRESENT or CORRECT) at most as often as
\* the letter occurs in the answer; when the answer holds a letter once and
\* the guess holds it twice, both times off its place, exactly one of the
\* two positions is PRESENT and the other is ABSENT.
C1_CreditWithinCount ==
    Scored =>
        \A c \in Letters :
            LET ans == pword[1]
                at == Holding(arg, c)
            IN  /\ Cardinality(Credited(arg, gret, c)) <= Counter(ans)[c]
                /\ ( /\ Counter(ans)[c] = 1
                     /\ Cardinality(at) = 2
                     /\ \A i \in at : ans[i] # c )
                   => /\ Cardinality({i \in at : gret[i] = PRESENT}) = 1
                      /\ Cardinality({i \in at : gret[i] = ABSENT}) = 1

\* The reference scoring: exact matches first, each using up one of its
\* letter; then, by position, PRESENT while the letter's count lasts, and
\* the count is decremented for every PRESENT.
RECURSIVE RefPresentPass(_, _, _, _)
RefPresentPass(w, guess, i, st) ==
    IF i > Len(w) THEN st
    ELSE IF st.rtn[i] = CORRECT
         THEN RefPresentPass(w, guess, i + 1, st)
         ELSE IF st.counts[guess[i]] > 0
              THEN RefPresentPass(w, guess, i + 1,
                       [rtn |-> [st.rtn EXCEPT ![i] = PRESENT],
                        counts |-> [st.counts EXCEPT ![guess[i]] = @ - 1]])
              ELSE RefPresentPass(w, guess, i + 1, st)
RefScore(w, guess) ==
    LET st0 == [rtn |-> [i \in 1..WordLen |-> ABSENT], counts |-> Counter(w)]
    IN  RefPresentPass(w, guess, 1, ExactPass(w, guess, 1, st0)).rtn

\* C2: guess() returns the score of the reference two-pass algorithm.
C2_MatchesReference == Scored => gret = RefScore(pword[1], arg)
\* The scenario of C2: answer "algae", guess "abase".
C2_AlgaeAbase ==
    (Scored /\ pword = <<algae>> /\ arg = abase)
        => gret = <<CORRECT, ABSENT, PRESENT, ABSENT, CORRECT>>

\* C3: a guess equal to the active answer is scored all-CORRECT and ends the
\* session, and a guess made while no answer is active fails as inactive (a
\* start() that returns false activates nothing); a scored guess that is not
\* the answer is not all-CORRECT and leaves the answer active.
C3_SolveEndsSession ==
    /\ (op = "guess" /\ IsActive(pword) /\ arg = pword[1])
           => (err = "none" /\ gret = AllCorrect /\ word = NoWord)
    /\ (op = "guess" /\ ~IsActive(pword)) => (err = "inactive" /\ word = pword)
    /\ (op = "start" /\ sret = "false") => word = pword
    /\ (Scored /\ arg # pword[1]) => (gret # AllCorrect /\ word = pword)
C3_Witness ==
    /\ op = "guess" /\ err = "inactive" /\ arg = crane
    /\ resetFrom = -1 /\ starts = 2 /\ answers = <<crane>>

\* C4: with N answers and no reset in between, the k-th start() returns true
\* and activates the k-th answer for k <= N, and returns false for k > N.
C4_StartSequence ==
    op = "start" =>
        IF starts <= Len(answers)
        THEN sret = "true" /\ word = <<answers[starts]>>
        ELSE sret = "false"
\* answers = ["crane"]: start(), guess("crane"), start() returns false.
C4_Witness ==
    /\ answers = <<crane>> /\ op = "start" /\ starts = 2 /\ sret = "false"
    /\ word = NoWord /\ resetFrom = -1

\* C5: guess() fails, returning no score, when no answer is active; otherwise
\* when the word is not 5 characters long; otherwise when it is not an
\* allowed guess; in every other case it returns a score of 5 elements.
C5_GuessChecksInOrder ==
    op = "guess" =>
        IF ~IsActive(pword) THEN err = "inactive" /\ gret = <<>>
        ELSE IF Len(arg) # 5 THEN err = "length" /\ gret = <<>>
        ELSE IF arg \notin words THEN err = "notallowed" /\ gret = <<>>
        ELSE /\ err = "none"
             /\ Len(gret) = 5
             /\ \A i \in 1..5 : gret[i] \in {ABSENT, PRESENT, CORRECT}
\* A word that is too short, handed over while no answer is active.
C5_Witness ==
    op = "guess" /\ ~IsActive(pword) /\ arg = cran /\ err = "inactive"

\* C6: after reset() the index is 0 and no word is active, whatever came
\* before; without randomization the answers keep their order, so the k-th
\* start() after the reset activates the k-th answer again, for all N
\* answers.
C6_ResetReplays ==
    /\ op = "reset" => (index = 0 /\ word = NoWord)
    /\ ~randomize => answers = answers0
    /\ (~randomize /\ op = "start" /\ starts <= Len(answers0))
           => (sret = "true" /\ word = <<answers0[starts]>>)
\* The second of two answers is started again after a reset that came after
\* both had been started.
C6_Witness ==
    /\ ~randomize /\ resetFrom >= 2 /\ Len(answers0) = 2
    /\ answers0[1] # answers0[2]
    /\ op = "start" /\ starts = 2 /\ word = <<answers0[2]>>

(***************************************************************************)
(* Properties of the candidate filter, checked under SpecFilter.           *)
(***************************************************************************)
\* C7: the list returned holds only words of the list handed in, and the
\* list handed in is not modified by the call.
C7_SubsetInputKept ==
    napplied >= 1 => (Range(cands) \subseteq Range(pin) /\ held = pin)
\* A call that dropped some words and kept others.
C7_Witness ==
    napplied = 1 /\ Len(pin) = 3 /\ Len(cands) = 1 /\ fguess \in Range(pin)

\* C8: filtering the filtered list again by the same guess and score returns
\* it unchanged.
C8_Idempotent == napplied = 2 => cands = pin
\* A second call on the list the first call returned, the first call having
\* dropped one word by the filters and the guess, which passed them.
C8_Witness ==
    /\ napplied = 2 /\ cands0 = <<abuse, abase, crane>> /\ cands = <<abuse>>
    /\ fguess = abase /\ fscore = <<CORRECT, CORRECT, ABSENT, CORRECT, CORRECT>>

\* C9: the filter keeps exactly the words of the input that (1) have the
\* guess's letter at every CORRECT position, (2) hold every PRESENT letter,
\* but not at its position, (3) hold no letter scored ABSENT, unless the
\* guess scores that letter CORRECT or PRESENT at some position, and (4)
\* are not the guess.
Survives(w, guess, score) ==
    /\ \A i \in 1..5 : score[i] = CORRECT => w[i] = guess[i]
    /\ \A i \in 1..5 :
           score[i] = PRESENT => (guess[i] \in Range(w) /\ w[i] # guess[i])
    /\ \A i \in 1..5 :
           (score[i] = ABSENT /\ guess[i] \in Range(w))
               => \E j \in 1..5 :
                      guess[j] = guess[i] /\ score[j] \in {CORRECT, PRESENT}
    /\ w # guess
C9_KeepsExactly ==
    napplied >= 1 =>
        cands = SelectSeq(pin, LAMBDA w : Survives(w, fguess, fscore))
\* A word survives that holds a letter scored ABSENT at one position of the
\* guess and CORRECT at another; the guess, which passes the three filters
\* as well, and a word without the CORRECT letters are dropped.
C9_Witness ==
    /\ napplied = 1 /\ fguess = abase /\ pin = <<abase, crane, abuse>>
    /\ fscore = <<CORRECT, CORRECT, ABSENT, CORRECT, CORRECT>>
    /\ cands = <<abuse>>

(***************************************************************************)
(* Properties of the value store, checked under SpecStore.                 *)
(***************************************************************************)
\* A lookup of a state that was not in the store stores and returns a zero
\* vector of qlen elements, and a lookup returns what the last in-place
\* update of the state's vector left.
LookupZeroThenUpdated ==
    /\ (qop = "lookup" /\ qnew)
           => (qret = Zeros(qlen) /\ QHas(Q, qkey) /\ QGet(Q, qkey) = qret)
    /\ (qop = "lookup" /\ expect[KeyId(qkey)] # <<>>)
           => qret = expect[KeyId(qkey)]

\* C10: every vector of a store created with num_actions = n has n
\* elements, after any sequence of lookups, updates, save and load; a lookup
\* of a state not in the store stores and returns n zeros, and the next
\* lookup of a state sees an in-place update of its vector.
C10_VectorLengthFixed ==
    /\ \A i \in DOMAIN Q : Len(Q[i].vec) = qlen
    /\ LookupZeroThenUpdated

\* The two dicts map the same states (compared by value) to equal vectors.
SameMapping(q1, q2) ==
    /\ {KeyId(q1[i].key) : i \in DOMAIN q1} = {KeyId(q2[i].key) : i \in DOMAIN q2}
    /\ \A i \in DOMAIN q1 : \A j \in DOMAIN q2 :
           KeyId(q1[i].key) = KeyId(q2[j].key)
               => (Len(q1[i].vec) = Len(q2[j].vec) /\ q1[i].vec = q2[j].vec)

\* C11: a load of the file the store saved yields the states and vectors the
\* store had when it saved, whatever it held just before the load: the
\* entries added since the save are gone.
C11_RoundTrip ==
    (qop = "load" /\ saved.self) => (qerr = "none" /\ SameMapping(Q, saved.q))
\* The store saved both states, one with an updated vector; the vector of
\* the start state was replaced by the load.
C11_Witness ==
    /\ qop = "load" /\ saved.self /\ Len(saved.q) = 2 /\ qlen = 2
    /\ QGet(Q, MissState) = <<0, 1>>
    /\ ref.held /\ ref.stale /\ ref.id = KeyId(StartState)
    /\ ref.vec # QGet(Q, StartState)

\* The file is not a value store: it is missing, is not a JSON object, has
\* a key that is not numbers joined by commas, or a value that is no list.
Malformed(f) ==
    \/ ~f.exists
    \/ ~f.json
    \/ \E i \in DOMAIN f.data : ~KeyParses(f.data[i].k) \/ ~f.data[i].list
\* C12: load() of a missing or malformed file ends with an error.
C12_BadFileFails == (qop = "load" /\ Malformed(file)) => qerr # "none"
\* The part of C12 that holds: a load that ends without an error leaves the
\* store with one entry for every member of the file.
LoadWithoutErrorFillsStore ==
    (qop = "load" /\ qerr = "none")
        => (file.exists /\ file.json /\ Len(Q) = Len(file.data))

(***************************************************************************)
(* Properties of snapshots, checked under SpecSnap.                        *)
(***************************************************************************)
\* C13: whatever is done to the store after a snapshot, the snapshot has
\* the states and the vectors it had when it was taken.
C13_SnapshotIndependent ==
    snap.taken =>
        /\ Len(snap.q) = Len(snap.orig)
        /\ \A i \in DOMAIN snap.q :
               /\ snap.q[i].key = snap.orig[i].key
               /\ snap.q[i].vec = snap.orig[i].vec
\* The vector the snapshot copied has since been updated in the store.
C13_Witness ==
    /\ snap.taken /\ qop = "update" /\ ref.insnap /\ ref.live
    /\ QGet(Q, StartState) # QGet(snap.q, StartState)

(***************************************************************************)
(* Properties of the policies, checked under SpecPolicy.                   *)
(***************************************************************************)
\* Action a (from 0) has the highest value of vec, and the lowest index of
\* those that have it.
IsGreedy(vec, a) ==
    /\ a + 1 \in DOMAIN vec
    /\ \A j \in DOMAIN vec : vec[j] <= vec[a + 1]
    /\ \A j \in DOMAIN vec : j < a + 1 => vec[j] < vec[a + 1]
Uniform(probs) == \A i, j \in DOMAIN probs : probs[i] = probs[j]

\* C14: the epsilon-greedy policy draws from the vector that gives every
\* action epsilon/n and the greedy action (highest value, lowest index)
\* 1 - epsilon more; for epsilon = 1 the vector is uniform; for epsilon = 0
\* the action drawn is the greedy one. The greedy policy returns the greedy
\* action.
C14_EpsilonGreedy ==
    LET vec == QGet(Q, pol.state)
    IN  /\ (qop = "policy" /\ pol.kind = "max") => IsGreedy(vec, pol.action)
        /\ (qop = "policy" /\ pol.kind = "eps") =>
               /\ Len(pol.probs) = qlen
               /\ \A i \in 1..qlen :
                      pol.probs[i] = (IF IsGreedy(vec, i - 1)
                                      THEN pol.eps + qlen * (EpsDen - pol.eps)
                                      ELSE pol.eps)
               /\ SumSeq(pol.probs) = qlen * EpsDen
               /\ pol.probs[pol.action + 1] > 0
               /\ pol.eps = EpsDen => Uniform(pol.probs)
               /\ pol.eps = 0 => IsGreedy(vec, pol.action)
\* A draw that is not the greedy action, for a state with two equal highest
\* values, of which the first is the greedy action.
C14_Witness ==
    /\ qop = "policy" /\ pol.kind = "eps" /\ pol.eps = 1 /\ qlen = 2
    /\ pol.seen /\ QGet(Q, pol.state) = <<1, 1>>
    /\ pol.action = 1 /\ pol.probs = <<3, 1>>

\* C15 as claimed: for a state not yet in the store the epsilon-greedy
\* policy draws uniformly, whatever epsilon is.
C15_UnseenUniform == (pol.kind = "eps" /\ ~pol.seen) => Uniform(pol.probs)
\* C15 as amended: for a state not yet in the store both policies behave as
\* for an entry of zeros, which the call stores: the greedy policy returns
\* action 0; the epsilon-greedy policy gives action 0 the probability
\* epsilon/n + 1 - epsilon and every other action epsilon/n, which is
\* uniform exactly when epsilon = 1 or there is one action.
C15_UnseenAsZeros ==
    (pol.kind # "none" /\ ~pol.seen) =>
        /\ QHas(Q, pol.state)
        /\ pol.kind = "max" => pol.action = 0
        /\ pol.kind = "eps" =>
               /\ pol.probs[1] = pol.eps + qlen * (EpsDen - pol.eps)
               /\ \A i \in 2..qlen : pol.probs[i] = pol.eps
               /\ Uniform(pol.probs) <=> (pol.eps = EpsDen \/ qlen = 1)
\* A state not yet in the store, two actions, epsilon = 1/EpsDen.
C15_Witness ==
    /\ pol.kind = "eps" /\ ~pol.seen /\ pol.eps = 1 /\ qlen = 2
    /\ pol.probs[1] > pol.probs[2] /\ pol.action = 1

\* The errors play_once lets out: the unset policy attribute, the action
\* function's empty list, and the game's refusal of a guess.
EpisodeRaised == pc = "raised" /\ aerr # "zerodivision"
\* The answer the game has active.
ActiveAnswer == IF index \in DOMAIN answers THEN <<answers[index]>> ELSE NoWord
\* The guesses of the episode so far end at the first all-CORRECT score.
SolvedAtLast(guesses) ==
    /\ guesses # <<>>
    /\ \A i \in DOMAIN guesses : Solved(guesses[i].score) <=> i = Len(guesses)

\* C16: every episode of play_once ends without an error after at most 6
\* guesses: at the first all-CORRECT score with result 1 and word = the
\* guess, or after exactly 6 unsolved guesses with result 0 and word = the
\* answer that is still active.
C16_EpisodeEnds ==
    /\ ~EpisodeRaised
    /\ pc = "finish" =>
           LET r == IF ep.done THEN ep.result ELSE [ep.result EXCEPT !.word = word]
           IN  \/ /\ SolvedAtLast(r.guesses)
                  /\ Len(r.guesses) <= 6
                  /\ r.result = 1
                  /\ r.word = <<r.guesses[Len(r.guesses)].guess>>
               \/ /\ Len(r.guesses) = 6
                  /\ \A i \in DOMAIN r.guesses : ~Solved(r.guesses[i].score)
                  /\ r.result = 0
                  /\ IsActive(r.word) /\ r.word = ActiveAnswer
\* The episodes that get to their end do end as C16 says, the losses at the
\* cap included.
EpisodeEndsWhenNoError == EpisodeRaised \/ C16_EpisodeEnds
CapReached == pc = "finish" /\ ~ep.done /\ Len(ep.result.guesses) = 6

\* The episodes of a train() call in the order played.
Played ==
    IF run.phase = "training" THEN run.history
    ELSE IF Len(run.results) >= 2 THEN run.results[1].history \o run.results[2].history
    ELSE run.results[1].history \o run.history
\* A call made on a freshly reset agent: its game at the first answer and
\* no visit counted.
FreshlyReset == run.i0 = 0 /\ run.c0 = NoCounts
\* C17: when train(p) on a freshly reset game is over, on an agent whose
\* policy attributes are set, the first floor(N*p/100) answers were played in training mode and every
\* other answer after them in evaluation mode, each answer in one episode,
\* in the order of the sequence, which has not changed.
C17_TrainPartition ==
    (run.call = "train" /\ run.i0 = 0 /\ ag.hasPolicies
        /\ pc \in {"returned", "raised"}) =>
        /\ answers = answers0
        /\ Len(Played) = Len(answers)
        /\ \A i \in DOMAIN Played :
               /\ Played[i].pos = i
               /\ Played[i].training <=> i <= (Len(answers) * run.pct) \div 100

\* C18: a play() in evaluation mode leaves the store as it was when the
\* call was made: the same states with the same vectors, and the same visit
\* counts.
C18_EvaluationFrame ==
    (run.call = "play" /\ ~ag.training) =>
        (SameMapping(Q, run.q0) /\ counts = run.c0)
\* What does hold in evaluation mode: the states the store had keep their
\* vectors and no visit is counted.
EvaluationKeepsValues ==
    (run.call = "play" /\ ~ag.training) =>
        /\ counts = run.c0
        /\ \A i \in DOMAIN run.q0 :
               QHas(Q, run.q0[i].key) /\ QGet(Q, run.q0[i].key) = run.q0[i].vec

\* The largest element of a vector.
MaxOf(vec) == CHOOSE x \in Range(vec) : \A y \in Range(vec) : y <= x
QStep == last.kind = "qlearning" /\ last.training /\ last.round >= 0
\* The reward, the target and the amounts of a Q-learning step.
QStepArithmetic ==
    QStep =>
        LET target == last.reward * Scale + Gamma * MaxOf(last.next_vec)
        IN  /\ last.reward = SumSeq(last.score)
                               + (IF Solved(last.score) THEN Bonus ELSE 0)
            /\ AlphaDen * (last.new - last.old) = target - last.old
            /\ AlphaDen * (last.ld_new - last.ld_old) = Abs(target - last.old)
\* C19: a Q-learning training step updates the value of (s, a), s being the
\* state the episode is in (the start state, then the score of the guess
\* before) and a the action taken, by alpha * (target - value(s, a)) with
\* target = r + gamma * max value(s', .); r is the sum of the score plus the
\* bonus when solved; the absolute amount goes to the learning delta.
C19_QLearningUpdate ==
    /\ QStep => KeyId(last.state) = KeyId(last.at)
    /\ QStepArithmetic

SarsaStep == last.kind = "sarsa" /\ last.training /\ last.round >= 0
\* C20: in a Sarsa training step the action a' chosen by the policy at the
\* next state, with the values as they are before the update, gives the
\* target r + gamma * value(s', a'); the step after it is made with a'; the
\* policy has been called once for every state entered.
C20_SarsaOnPolicy ==
    SarsaStep =>
        /\ last.next_action \in 1..qlen
        /\ AlphaDen * (last.new - last.old)
               = last.reward * Scale + Gamma * last.next_vec[last.next_action]
                   - last.old
        /\ last.round > 0 => last.action = last.carried
        /\ KeyId(last.state) = KeyId(last.at)
        /\ ep.polcalls = ep.entered
\* A second step of a Sarsa training episode whose next action is not the
\* best one of the next state.
C20_Witness ==
    /\ SarsaStep /\ last.round >= 1
    /\ last.next_vec[last.next_action] < MaxOf(last.next_vec)
    /\ last.next_vec[last.next_action] # 0

\* C21: when the candidate list of an episode has run empty after a guess,
\* the episode does not raise: it ends as a loss and play() goes on.
C21_EmptyListIsLoss ==
    (ag.hasPolicies /\ ep.round > 0 /\ ep.words = <<>>) => pc # "raised"

\* The states with a visit count of at least 1.
Visited == {i \in DOMAIN counts : counts[i].n >= 1}
\* C22: statistics() returns the number of distinct states visited, the
\* visit counts, and as the mean the total of the visits divided by the
\* number of distinct states visited.
C22_StatisticsOfVisits ==
    qop = "statistics" =>
        /\ qerr = "none"
        /\ qret.states = Cardinality(Visited)
        /\ qret.visits = counts
        /\ qret.avg_num * Cardinality(Visited) = TotalVisits(counts) * qret.avg_den
\* What does hold: the three values are computed from len(self) and the
\* counts whenever the store has a state.
StatisticsOfStore ==
    qop = "statistics" =>
        IF Len(Q) = 0 THEN qerr = "zerodivision"
        ELSE /\ qerr = "none"
             /\ qret.states = Len(Q)
             /\ qret.visits = counts
             /\ qret.avg_num = TotalVisits(counts) /\ qret.avg_den = Len(Q)
\* statistics() of a store with two states, one of them visited.
StatisticsCountsUnvisited ==
    /\ qop = "statistics" /\ qerr = "none"
    /\ qret.states = 2 /\ Cardinality(Visited) = 1

\* An episode has begun: play_once has read its policy.
EpisodeBegun ==
    \/ pc \in {"round", "finish"}
    \/ pc = "raised" /\ aerr \in {"attribute", "index"}
ModePolicy == IF ag.training THEN "eps" ELSE "max"
\* C23: the policy an episode chooses its actions with is the epsilon-greedy
\* one when the agent is in training mode and the greedy one otherwise.
C23_PolicyFollowsMode == EpisodeBegun => ep.policy = ModePolicy
\* What does hold: play() sets self.policy by the mode, and an agent whose
\* user has assigned the two attributes plays by the policy of its mode.
PolicyFollowsModeWhenSet ==
    /\ (EpisodeBegun /\ ag.hasPolicies) => ep.policy = ModePolicy
    /\ pc \in {"loop", "begin", "round", "finish"} => ag.policy = ModePolicy

\* A step in which the episode enters a state: the start state when
\* play_once begins, the state of the score after a guess.
EntersState ==
    \/ pc = "begin" /\ pc' = "round"
    \/ pc = "round" /\ pc' \in {"round", "finish"}
EnteredState == IF pc = "begin" THEN StartState ELSE last'.next_state
CountsAfterEntering ==
    counts' = IF ag.training THEN visit(counts, EnteredState) ELSE counts
\* C24: in a training episode of either agent every state entered (the start
\* state, the state after each guess) adds one to that state's visit count;
\* in evaluation mode the counts do not change.
C24_VisitPerStateEntered == [][EntersState => CountsAfterEntering]_vars
\* What does hold: Sarsa counts every state it enters in training, no agent
\* counts in evaluation, and Q-learning never counts at all.
SarsaVisitPerStateEntered ==
    [][(EntersState /\ (ag.kind = "sarsa" \/ ~ag.training)) => CountsAfterEntering]_vars
QLearningNeverVisits == ag.kind = "qlearning" => counts = NoCounts
\* A Q-learning training episode has ended with k guesses and no visit.
QLearningEpisodeUncounted ==
    /\ ag.kind = "qlearning" /\ ag.training /\ pc = "finish"
    /\ ep.entered = Len(ep.result.guesses) + 1
    /\ TotalVisits(counts) = 0
\* A Sarsa training episode of two guesses has counted its three states.
SarsaEpisodeCounted ==
    /\ ag.kind = "sarsa" /\ ag.training /\ pc = "finish" /\ run.count = 1
    /\ run.c0 = NoCounts
    /\ Len(ep.result.guesses) = 2
    /\ TotalVisits(counts) = 3

\* C25: every episode starts with the agent's whole list as its candidate
\* list, no round of an episode makes the candidate list longer, no step of
\* an episode changes the agent's own list, and no step at all changes the
\* words it holds (reset() reorders them).
C25_CandidatesShrinkAndReseed ==
    [][/\ (pc = "begin" /\ pc' = "round") => ep'.words = ag'.words
       /\ (pc = "round" /\ pc' \in {"round", "finish"}) =>
              Len(ep'.words) <= Len(ep.words)
       /\ pc \in {"begin", "round", "finish"} => ag'.words = ag.words
       /\ Len(ag'.words) = Len(ag.words)
       /\ Range(ag'.words) = Range(ag.words)]_vars
\* The second episode of a call has begun with the whole list, after a
\* first episode of two guesses or more, which filtered its list.
SecondEpisodeReseeded ==
    /\ run.count = 2 /\ pc = "round" /\ ep.round = 0
    /\ Len(run.history) = 1 /\ Len(run.history[1].guesses) >= 2
    /\ ep.words = ag.words /\ Len(ep.words) = 3

\* start() has returned false since the last reset(): only start() raises
\* the index and only reset() rewinds it.
Exhausted == index > Len(answers)
\* C26: once start() has returned false, and until reset(), no answer is
\* active and a guess() fails with the error of an inactive session.
C26_ExhaustedIsInactive ==
    Exhausted => /\ ~IsActive(word)
                 /\ op = "guess" => err = "inactive"
\* What does hold: a start() that returns false leaves the session as it
\* was, so it is inactive only if the last answer was solved or none was
\* ever started.
ExhaustedKeepsSession ==
    [][(op' = "start" /\ sret' = "false") => (word' = word /\ Exhausted')]_vars
\* A guess was scored after start() had returned false.
ScoredAfterExhaustion ==
    Exhausted /\ op = "guess" /\ err = "none" /\ Len(gret) = WordLen

\* The answers of the list that Game.guess() scores the guess with the score
\* at hand: the guess is not the answer and the score is the game's.
AnswersScored(ws) ==
    {a \in Range(ws) : a # fguess /\ score_guess(a, fguess) = fscore}
\* C27: an answer that is in the candidate list, and for which Game.guess()
\* gave the score of a guess that is not the answer, is in the list that
\* apply_guess returns.
C27_AnswerSurvives ==
    napplied >= 1 => AnswersScored(pin) \subseteq Range(cands)
\* abuse was the answer to the guess abase, whose middle "a" the game scores
\* ABSENT: the filter dropped another word and the guess, and kept abuse.
AnswerSurvived ==
    /\ napplied = 1 /\ fguess = abase /\ abuse \in AnswersScored(pin)
    /\ fguess \in Range(pin)
    /\ Len(pin) = 3 /\ cands = <<abuse>>
\* In an episode whose answer is in the agent's list, the answer is in the
\* candidate list whenever an action function is about to pick a guess, so
\* the list is not empty.
AnswerStaysCandidate ==
    (pc = "round" /\ IsActive(word) /\ word[1] \in Range(ag.words)) =>
        word[1] \in Range(ep.words)

\* The words guessed so far in the episode.
GuessedWords == [i \in DOMAIN ep.result.guesses |-> ep.result.guesses[i].guess]
NoWordTwice ==
    \A i, j \in DOMAIN GuessedWords : GuessedWords[i] = GuessedWords[j] => i = j
\* C28: in an episode every guess is a word of the candidate list it was
\* picked from, an unsolved guess leaves a strictly shorter list without the
\* guess, and no word is guessed twice.
C28_GuessFromShrinkingList ==
    [][(pc = "round" /\ pc' \in {"round", "finish"}) =>
          /\ last'.guess \in Range(ep.words)
          /\ GuessedWords' = Append(GuessedWords, last'.guess)
          /\ ~ep'.done => /\ Len(ep'.words) < Len(ep.words)
                          /\ last'.guess \notin Range(ep'.words)
          /\ NoWordTwice']_vars
\* An episode was solved with its third guess: three different words, the
\* last of them the only candidate left.
ThreeGuessesNoRepeat ==
    /\ pc = "finish" /\ ep.done /\ Len(GuessedWords) = 3 /\ NoWordTwice
    /\ ep.words = <<last.guess>>

\* The filter alone, for any score: a guess taken from a list that holds no
\* word twice is not in the list returned, which is shorter.
GuessLeavesList ==
    (napplied >= 1 /\ fguess \in Range(pin)) =>
        (fguess \notin Range(cands) /\ Len(cands) < Len(pin))

\* The agent's words are allowed guesses and the answers are agent's words.
WiredWell ==
    /\ Range(ag.words) \subseteq words
    /\ Range(answers) \subseteq Range(ag.words)
\* A step in which an action function has picked a guess (it appends the
\* guess to agent.guesses) and play_once has handed it to Game.guess().
GuessMade == pc = "round" /\ Len(ag'.guesses) = Len(ag.guesses) + 1
\* C29: when the agent's words are allowed and the answers are among them,
\* every Game.guess() of play() is made in an active session and raises no
\* error, and the episode is solved for the agent exactly when that guess
\* made the session inactive.
C29_GuessesNeverRaise ==
    [][(WiredWell /\ GuessMade) =>
          /\ IsActive(word)
          /\ op' = "guess" /\ arg' = last'.guess /\ err' = "none"
          /\ pc' # "raised"
          /\ ep'.done <=> ~IsActive(word')]_vars
\* The second guess of an episode solved it: the game scored both guesses,
\* the session is over and the episode is done.
SolvedBySecondGuess ==
    /\ WiredWell /\ pc = "finish" /\ ep.done /\ Len(ag.guesses) = 2
    /\ op = "guess" /\ err = "none" /\ IsActive(pword) /\ ~IsActive(word)
\* An episode reached the cap unsolved: the session is still active.
LostStaysActive ==
    /\ WiredWell /\ pc = "finish" /\ ~ep.done /\ Len(ag.guesses) = MaxRounds
    /\ op = "guess" /\ err = "none" /\ IsActive(word)

\* C30: train() on a freshly reset agent raises no error, whatever the
\* percentage and the answers (at least one), an empty training or evaluation
\* segment included.
C30_TrainNeverRaises ==
    (run.call = "train" /\ FreshlyReset /\ answers # <<>>) => pc # "raised"
\* What does hold: with the two policy attributes assigned, train() on a
\* freshly reset agent raises only when its training count is 0 or leaves fewer than two answers, the
\* cases in which the evaluation play() has no episode to average over.
TrainRaisesOnlyWithoutEvaluation ==
    (run.call = "train" /\ FreshlyReset /\ pc = "raised" /\ ag.hasPolicies) =>
        /\ aerr = "zerodivision"
        /\ run.twc = 0 \/ run.twc >= Len(answers) - 1
\* train() has returned: one answer trained on, one passed over, one
\* evaluated.
TrainReturned ==
    /\ run.call = "train" /\ pc = "returned" /\ Len(answers) = 3 /\ run.twc = 1
    /\ Len(run.results) = 2
    /\ Len(run.results[1].history) = 1 /\ Len(run.results[2].history) = 1
\* train(100) of an agent with its policy attributes has raised.
TrainAllRaised ==
    /\ run.call = "train" /\ FreshlyReset /\ pc = "raised" /\ ag.hasPolicies
    /\ run.pct = 100 /\ answers # <<>> /\ aerr = "zerodivision"
====
